---- MODULE Spec2Model ----
(***************************************************************************)
(* Model of the Express product API (server.js): the middleware stack, the *)
(* in-memory products array and the route handlers.  One action is one     *)
(* HTTP request carried through the whole stack, which is how Node runs    *)
(* it: no handler awaits, so each request runs to completion.              *)
(***************************************************************************)
EXTENDS Integers, Sequences, FiniteSets, TLC

VARIABLES products, issued, req, res

vars == <<products, issued, req, res>>

(***************************************************************************)
(* JavaScript values as they arrive in a JSON body or a query string.      *)
(* Every value carries its typeof tag t, its string payload s and its      *)
(* numeric payload n (booleans: n = 1 for true, 0 for false; typeof        *)
(* "object": n = 0 for null, 1 for an object or array).                    *)
(***************************************************************************)
Undefined == [t |-> "undefined", s |-> "", n |-> 0]

Null == [t |-> "object", s |-> "", n |-> 0]

\* {} or []
Object == [t |-> "object", s |-> "", n |-> 1]

Str(s) == [t |-> "string", s |-> s, n |-> 0]

Num(n) == [t |-> "number", s |-> "", n |-> n]

Bool(b) == [t |-> "boolean", s |-> "", n |-> IF b THEN 1 ELSE 0]

\* JavaScript truthiness: !v is ~Truthy(v)
Truthy(v) ==
  CASE v.t = "string" -> v.s # ""
    [] v.t = "number" -> v.n # 0
    [] v.t = "boolean" -> v.n = 1
    [] v.t = "object" -> v.n = 1
    [] OTHER -> FALSE

\* Boolean(v)
ToBoolean(v) == Truthy(v)

(***************************************************************************)
(* Strings.  TLC strings are sequences of characters.                      *)
(***************************************************************************)
UpperChars == "ABCDEFGHIJKLMNOPQRSTUVWXYZ"

LowerChars == "abcdefghijklmnopqrstuvwxyz"

Digits == "0123456789"

\* position of the one-character string c in the string alphabet, 0 if absent
IndexOf(c, alphabet) ==
  IF \E i \in 1..Len(alphabet) : SubSeq(alphabet, i, i) = c
  THEN CHOOSE i \in 1..Len(alphabet) : SubSeq(alphabet, i, i) = c
  ELSE 0

CharAt(s, i) == SubSeq(s, i, i)

LowerChar(c) ==
  IF IndexOf(c, UpperChars) = 0 THEN c
  ELSE CharAt(LowerChars, IndexOf(c, UpperChars))

RECURSIVE toLowerCase(_)
toLowerCase(s) ==
  IF s = "" THEN ""
  ELSE LowerChar(CharAt(s, 1)) \o toLowerCase(SubSeq(s, 2, Len(s)))

IsSpace(c) == c = " "

RECURSIVE trimStart(_)
trimStart(s) ==
  IF s # "" /\ IsSpace(CharAt(s, 1)) THEN trimStart(SubSeq(s, 2, Len(s))) ELSE s

RECURSIVE trimEnd(_)
trimEnd(s) ==
  IF s # "" /\ IsSpace(CharAt(s, Len(s))) THEN trimEnd(SubSeq(s, 1, Len(s) - 1)) ELSE s

trim(s) == trimEnd(trimStart(s))

\* s.includes(sub)
includes(s, sub) ==
  \E i \in 1..(Len(s) + 1) :
    /\ i + Len(sub) - 1 <= Len(s)
    /\ SubSeq(s, i, i + Len(sub) - 1) = sub

(***************************************************************************)
(* parseInt(v): NaN for undefined, otherwise leading blanks, an optional   *)
(* sign and the longest run of decimal digits; NaN when there is no digit. *)
(***************************************************************************)
NaN == [nan |-> TRUE, n |-> 0]

Int_(n) == [nan |-> FALSE, n |-> n]

RECURSIVE DigitRun(_, _)
DigitRun(s, acc) ==
  IF s = "" \/ IndexOf(CharAt(s, 1), Digits) = 0 THEN acc
  ELSE DigitRun(SubSeq(s, 2, Len(s)), acc * 10 + (IndexOf(CharAt(s, 1), Digits) - 1))

HasDigit(s) == s # "" /\ IndexOf(CharAt(s, 1), Digits) # 0

\* the digits of an unsigned numeral
ParseUnsigned(body, neg) ==
  IF ~HasDigit(body) THEN NaN
  ELSE Int_(IF neg THEN 0 - DigitRun(body, 0) ELSE DigitRun(body, 0))

\* the numeral after the leading blanks
ParseSigned(s) ==
  IF s # "" /\ CharAt(s, 1) \in {"-", "+"}
  THEN ParseUnsigned(SubSeq(s, 2, Len(s)), CharAt(s, 1) = "-")
  ELSE ParseUnsigned(s, FALSE)

parseInt(v) == IF v.t # "string" THEN NaN ELSE ParseSigned(trimStart(v.s))

\* parseInt(v) || dflt : NaN and 0 are falsy
OrDefault(p, dflt) == IF p.nan \/ p.n = 0 THEN dflt ELSE p.n

\* Math.ceil(a / b) for an integer a >= 0 and an integer b # 0
MathCeilDiv(a, b) ==
  IF b > 0 THEN (a + b - 1) \div b
  ELSE 0 - (a \div (0 - b))

\* Array.prototype.slice(start, end) on a sequence (0-based, end exclusive,
\* negative indices count from the end)
RelIndex(k, len) ==
  IF k < 0 THEN (IF len + k < 0 THEN 0 ELSE len + k)
  ELSE (IF k > len THEN len ELSE k)

slice(seq, start, end) ==
  SubSeq(seq, RelIndex(start, Len(seq)) + 1, RelIndex(end, Len(seq)))

\* Array.prototype.findIndex, 0-based, -1 when absent
findIndex(seq, id) ==
  IF \E i \in 1..Len(seq) : seq[i].id = id
  THEN (CHOOSE i \in 1..Len(seq) : seq[i].id = id /\ \A j \in 1..(i - 1) : seq[j].id # id) - 1
  ELSE -1

(***************************************************************************)
(* Errors and responses.                                                   *)
(***************************************************************************)
NoError == [name |-> "", statusCode |-> 0, message |-> ""]

NotFoundError(message) == [name |-> "NotFoundError", statusCode |-> 404, message |-> message]

ValidationError(message) == [name |-> "ValidationError", statusCode |-> 400, message |-> message]

AuthenticationError(message) ==
  [name |-> "AuthenticationError", statusCode |-> 401, message |-> message]

\* x.trim() on a value that is no string: the error carries no statusCode
TypeError == [name |-> "TypeError", statusCode |-> 0, message |-> "trim is not a function"]

\* body-parser's error for a body that is not JSON (http-errors, status 400)
SyntaxError == [name |-> "SyntaxError", statusCode |-> 400, message |-> "Unexpected token in JSON"]

NoPagination == [page |-> 0, limit |-> 0, totalPages |-> 0, hasNext |-> FALSE, hasPrev |-> FALSE]

NoStats == [totalProducts |-> 0, totalInStock |-> 0, totalOutOfStock |-> 0]

\* No response sent yet.  data is the list of products of the response body
\* (a single product is the one-element list), type is the body's format.
NoResponse ==
  [status |-> 0, type |-> "none", success |-> FALSE, error |-> "", message |-> "",
   count |-> 0, pagination |-> NoPagination, stats |-> NoStats, data |-> <<>>]

\* res.json(...) with the default status 200
Json200 == [NoResponse EXCEPT !.status = 200, !.type = "json", !.success = TRUE]

Thrown(err, store, ids) == [err |-> err, res |-> NoResponse, products |-> store, issued |-> ids]

Sent(response, store, ids) == [err |-> NoError, res |-> response, products |-> store, issued |-> ids]

(***************************************************************************)
(* The middleware stack in registration order.                             *)
(***************************************************************************)
Stack ==
  <<"bodyParser", "logger", "auth", "root", "list", "search", "stats", "get",
    "post", "put", "delete", "errorHandler", "notFound">>

LayerOf(name) == CHOOSE i \in 1..Len(Stack) : Stack[i] = name

\* the global error-handling middleware
errorHandler(error) ==
  [NoResponse EXCEPT
     !.status = IF error.statusCode # 0 THEN error.statusCode ELSE 500,
     !.type = "json",
     !.success = FALSE,
     !.error = IF error.message # "" THEN error.message ELSE "Internal Server Error"]

\* Express's built-in final handler: the status of the error, an HTML page
finalhandler(error) ==
  [NoResponse EXCEPT
     !.status = IF error.statusCode >= 400 /\ error.statusCode < 600
                THEN error.statusCode ELSE 500,
     !.type = "html"]

\* An error raised in a layer goes to the next error-handling middleware
\* registered after that layer, and to the final handler when there is none.
DispatchError(error, layer) ==
  IF LayerOf("errorHandler") > LayerOf(layer) THEN errorHandler(error)
  ELSE finalhandler(error)

bodyParserJson(r) == IF r.body.malformed THEN SyntaxError ELSE NoError

authMiddleware(r) ==
  IF ~Truthy(r.apiKey)
  THEN AuthenticationError("API key required. Please provide x-api-key in headers")
  ELSE NoError

\* the validation with the price test reduced to the type test
validateProductMiddleware_AnyNumber(r) ==
  LET name == r.body.name
      description == r.body.description
      price == r.body.price
      category == r.body.category
  IN IF ~Truthy(name) \/ ~Truthy(description) \/ ~Truthy(price) \/ ~Truthy(category)
     THEN ValidationError("Missing required fields: name, description, price, category")
     ELSE IF name.t # "string" \/ Len(trim(name.s)) = 0
     THEN ValidationError("Name must be a non-empty string")
     ELSE IF price.t # "number"
     THEN ValidationError("Price must be a positive number")
     ELSE NoError

\* the validation with the name tested for length without trim()
validateProductMiddleware_NoTrim(r) ==
  LET name == r.body.name
      description == r.body.description
      price == r.body.price
      category == r.body.category
  IN IF ~Truthy(name) \/ ~Truthy(description) \/ ~Truthy(price) \/ ~Truthy(category)
     THEN ValidationError("Missing required fields: name, description, price, category")
     ELSE IF name.t # "string" \/ Len(name.s) = 0
     THEN ValidationError("Name must be a non-empty string")
     ELSE IF price.t # "number" \/ price.n <= 0
     THEN ValidationError("Price must be a positive number")
     ELSE NoError

validateProductMiddleware(r) ==
  LET name == r.body.name
      description == r.body.description
      price == r.body.price
      category == r.body.category
  IN IF ~Truthy(name) \/ ~Truthy(description) \/ ~Truthy(price) \/ ~Truthy(category)
     THEN ValidationError("Missing required fields: name, description, price, category")
     ELSE IF name.t # "string" \/ Len(trim(name.s)) = 0
     THEN ValidationError("Name must be a non-empty string")
     ELSE IF price.t # "number" \/ price.n <= 0
     THEN ValidationError("Price must be a positive number")
     ELSE NoError

(***************************************************************************)
(* Routing.  A request is [method, path, apiKey, body, query].             *)
(***************************************************************************)
Mount == "/api/products"

StartsWith(s, prefix) == Len(s) >= Len(prefix) /\ SubSeq(s, 1, Len(prefix)) = prefix

\* app.use('/api/products', ...) matches the mount path and everything below it
UnderMount(path) ==
  \/ path = Mount
  \/ StartsWith(path, Mount \o "/")

\* '/api/products/:id' matches one non-empty segment below the mount path
IsIdPath(path) ==
  /\ StartsWith(path, Mount \o "/")
  /\ Len(path) > Len(Mount) + 1
  /\ ~includes(SubSeq(path, Len(Mount) + 2, Len(path)), "/")

\* req.params.id
IdParam(path) == SubSeq(path, Len(Mount) + 2, Len(path))

Matches(layer, method, path) ==
  CASE layer = "root" -> method = "GET" /\ path = "/"
    [] layer = "list" -> method = "GET" /\ path = Mount
    [] layer = "search" -> method = "GET" /\ path = Mount \o "/search"
    [] layer = "stats" -> method = "GET" /\ path = Mount \o "/stats"
    [] layer = "get" -> method = "GET" /\ IsIdPath(path)
    [] layer = "post" -> method = "POST" /\ path = Mount
    [] layer = "put" -> method = "PUT" /\ IsIdPath(path)
    [] layer = "delete" -> method = "DELETE" /\ IsIdPath(path)
    [] layer = "notFound" -> TRUE
    [] OTHER -> FALSE

\* the first layer of the stack, from layer i on in registration order, that
\* takes the request
RECURSIVE FirstMatch(_, _, _)
FirstMatch(i, method, path) ==
  IF Matches(Stack[i], method, path) THEN Stack[i] ELSE FirstMatch(i + 1, method, path)

Route(method, path) == FirstMatch(1, method, path)

(***************************************************************************)
(* The products array and the route handlers.  A handler yields what it    *)
(* threw or sent, and the array and the uuids used so far as it leaves     *)
(* them.                                                                   *)
(***************************************************************************)
SeedProducts ==
  <<[id |-> "1", name |-> "Laptop",
     description |-> "High-performance laptop with 16GB RAM",
     price |-> 1200, category |-> "electronics", inStock |-> TRUE],
    [id |-> "2", name |-> "Smartphone",
     description |-> "Latest model with 128GB storage",
     price |-> 800, category |-> "electronics", inStock |-> TRUE],
    [id |-> "3", name |-> "Coffee Maker",
     description |-> "Programmable coffee maker with timer",
     price |-> 50, category |-> "kitchen", inStock |-> FALSE]>>

\* the three filters of GET /api/products, in the order of the source
FilterByCategory(r, list) ==
  LET byCategory(p) == toLowerCase(p.category) = toLowerCase(r.query.category.s)
  IN IF Truthy(r.query.category) THEN SelectSeq(list, byCategory) ELSE list

\* the stock filter comparing the query value with 'true' as it is written
FilterByStock_CaseSensitive(r, list) ==
  LET byStock(p) == p.inStock = (r.query.inStock.s = "true")
  IN IF Truthy(r.query.inStock) THEN SelectSeq(list, byStock) ELSE list

FilterByStock(r, list) ==
  LET byStock(p) == p.inStock = (toLowerCase(r.query.inStock.s) = "true")
  IN IF Truthy(r.query.inStock) THEN SelectSeq(list, byStock) ELSE list

FilterBySearch(r, list) ==
  LET byName(p) == includes(toLowerCase(p.name), toLowerCase(r.query.search.s))
  IN IF Truthy(r.query.search) THEN SelectSeq(list, byName) ELSE list

\* the pagination of GET /api/products and its response
Paginate(filteredProducts, page, limit, startIndex, endIndex) ==
  [Json200 EXCEPT
     !.count = Len(filteredProducts),
     !.pagination =
       [page |-> page, limit |-> limit,
        totalPages |-> MathCeilDiv(Len(filteredProducts), limit),
        hasNext |-> endIndex < Len(filteredProducts),
        hasPrev |-> startIndex > 0],
     !.data = slice(filteredProducts, startIndex, endIndex)]

\* the pagination with startIndex = page * limit
PaginateFrom_NextPage(filteredProducts, page, limit) ==
  Paginate(filteredProducts, page, limit, page * limit, page * limit + limit)

PaginateFrom(filteredProducts, page, limit) ==
  Paginate(filteredProducts, page, limit, (page - 1) * limit, (page - 1) * limit + limit)

\* GET /api/products
listProducts(r, store, ids) ==
  Sent(PaginateFrom(FilterBySearch(r, FilterByStock(r, FilterByCategory(r, store))),
                    OrDefault(parseInt(r.query.page), 1),
                    OrDefault(parseInt(r.query.limit), 10)),
       store, ids)

\* GET /api/products/search
searchProducts(r, store, ids) ==
  LET q == r.query.q
      byName(p) == includes(toLowerCase(p.name), toLowerCase(q.s))
      searchResults == SelectSeq(store, byName)
  IN IF ~Truthy(q)
     THEN Thrown(ValidationError("Search query parameter q is required"), store, ids)
     ELSE Sent([Json200 EXCEPT !.count = Len(searchResults), !.data = searchResults],
               store, ids)

\* GET /api/products/stats (the totals; the price figures are not modelled)
productStats(r, store, ids) ==
  LET isIn(p) == p.inStock
      isOut(p) == ~p.inStock
  IN Sent([Json200 EXCEPT
             !.stats = [totalProducts |-> Len(store),
                        totalInStock |-> Len(SelectSeq(store, isIn)),
                        totalOutOfStock |-> Len(SelectSeq(store, isOut))]],
          store, ids)

\* GET /api/products/:id
getProduct(r, store, ids) ==
  LET productIndex == findIndex(store, IdParam(r.path))
  IN IF productIndex = -1
     THEN Thrown(NotFoundError("Product not found"), store, ids)
     ELSE Sent([Json200 EXCEPT !.data = <<store[productIndex + 1]>>], store, ids)

\* the create handler without products.push(newProduct)
createProduct_NoPush(r, store, ids, uuid) ==
  LET b == r.body
      inStock == IF b.inStock = Undefined THEN Bool(TRUE) ELSE b.inStock
      newProduct ==
        [id |-> uuid, name |-> trim(b.name.s), description |-> trim(b.description.s),
         price |-> b.price.n, category |-> trim(b.category.s),
         inStock |-> ToBoolean(inStock)]
  IN IF b.name.t # "string" \/ b.description.t # "string" \/ b.category.t # "string"
     THEN Thrown(TypeError, store, ids \cup {uuid})
     ELSE Sent([Json200 EXCEPT !.status = 201, !.data = <<newProduct>>],
               store, ids \cup {uuid})

\* the body of POST /api/products, after validation; uuid is what uuidv4()
\* returns.  The id is generated before the first trim() is evaluated.
createProduct(r, store, ids, uuid) ==
  LET b == r.body
      inStock == IF b.inStock = Undefined THEN Bool(TRUE) ELSE b.inStock
      newProduct ==
        [id |-> uuid, name |-> trim(b.name.s), description |-> trim(b.description.s),
         price |-> b.price.n, category |-> trim(b.category.s),
         inStock |-> ToBoolean(inStock)]
  IN IF b.name.t # "string" \/ b.description.t # "string" \/ b.category.t # "string"
     THEN Thrown(TypeError, store, ids \cup {uuid})
     ELSE Sent([Json200 EXCEPT !.status = 201, !.data = <<newProduct>>],
               Append(store, newProduct), ids \cup {uuid})

\* the update handler with inStock: Boolean(inStock) in every case
updateProduct_AlwaysStock(r, store, ids) ==
  LET productIndex == findIndex(store, IdParam(r.path))
      b == r.body
      old == store[productIndex + 1]
      updated ==
        [id |-> old.id, name |-> trim(b.name.s), description |-> trim(b.description.s),
         price |-> b.price.n, category |-> trim(b.category.s),
         inStock |-> ToBoolean(b.inStock)]
  IN IF productIndex = -1
     THEN Thrown(NotFoundError("Product not found"), store, ids)
     ELSE IF b.name.t # "string" \/ b.description.t # "string" \/ b.category.t # "string"
     THEN Thrown(TypeError, store, ids)
     ELSE Sent([Json200 EXCEPT !.data = <<updated>>],
               [store EXCEPT ![productIndex + 1] = updated], ids)

\* the body of PUT /api/products/:id, after validation
updateProduct(r, store, ids) ==
  LET productIndex == findIndex(store, IdParam(r.path))
      b == r.body
      old == store[productIndex + 1]
      updated ==
        [id |-> old.id, name |-> trim(b.name.s), description |-> trim(b.description.s),
         price |-> b.price.n, category |-> trim(b.category.s),
         inStock |-> IF b.inStock # Undefined THEN ToBoolean(b.inStock) ELSE old.inStock]
  IN IF productIndex = -1
     THEN Thrown(NotFoundError("Product not found"), store, ids)
     ELSE IF b.name.t # "string" \/ b.description.t # "string" \/ b.category.t # "string"
     THEN Thrown(TypeError, store, ids)
     ELSE Sent([Json200 EXCEPT !.data = <<updated>>],
               [store EXCEPT ![productIndex + 1] = updated], ids)

\* splice(index) without the count: everything from index on goes
splice1_ToEnd(seq, index) == SubSeq(seq, 1, index)

\* Array.prototype.splice(index, 1), 0-based index
splice1(seq, index) == SubSeq(seq, 1, index) \o SubSeq(seq, index + 2, Len(seq))

\* DELETE /api/products/:id
deleteProduct(r, store, ids) ==
  LET productIndex == findIndex(store, IdParam(r.path))
  IN IF productIndex = -1
     THEN Thrown(NotFoundError("Product not found"), store, ids)
     ELSE Sent([Json200 EXCEPT !.message = "Product deleted successfully"],
               splice1(store, productIndex), ids)

\* GET /
root(r, store, ids) ==
  Sent([Json200 EXCEPT !.success = FALSE, !.message = "Welcome to the Product API!"],
       store, ids)

\* the catch-all registered last
notFound(r, store, ids) == Thrown(NotFoundError("Route " \o r.path \o " not found"), store, ids)

(***************************************************************************)
(* The application: body parser, logger, authentication on the mount path, *)
(* the route (with validation before POST and PUT), and the error path.    *)
(***************************************************************************)
Handler(layer, r, store, ids, uuid) ==
  CASE layer = "root" -> root(r, store, ids)
    [] layer = "list" -> listProducts(r, store, ids)
    [] layer = "search" -> searchProducts(r, store, ids)
    [] layer = "stats" -> productStats(r, store, ids)
    [] layer = "get" -> getProduct(r, store, ids)
    [] layer = "post" -> createProduct(r, store, ids, uuid)
    [] layer = "put" -> updateProduct(r, store, ids)
    [] layer = "delete" -> deleteProduct(r, store, ids)
    [] OTHER -> notFound(r, store, ids)

Validated(layer) == layer \in {"post", "put"}

\* what the handler threw goes to the error path
Settle(layer, out) ==
  IF out.err # NoError
  THEN Sent(DispatchError(out.err, layer), out.products, out.issued)
  ELSE out

Routed(layer, r, store, ids, uuid) ==
  IF Validated(layer) /\ validateProductMiddleware(r) # NoError
  THEN Sent(DispatchError(validateProductMiddleware(r), layer), store, ids)
  ELSE Settle(layer, Handler(layer, r, store, ids, uuid))

App(r, store, ids, uuid) ==
  IF bodyParserJson(r) # NoError
  THEN Sent(DispatchError(bodyParserJson(r), "bodyParser"), store, ids)
  ELSE IF UnderMount(r.path) /\ authMiddleware(r) # NoError
  THEN Sent(DispatchError(authMiddleware(r), "auth"), store, ids)
  ELSE Routed(Route(r.method, r.path), r, store, ids, uuid)

Commit(r, out) ==
  /\ req' = r
  /\ res' = out.res
  /\ products' = out.products
  /\ issued' = out.issued

Serve(r, uuid) == Commit(r, App(r, products, issued, uuid))

(***************************************************************************)
(* The requests the model sends.                                           *)
(***************************************************************************)
MaxUuid == 1

\* the values uuidv4() can return; none is a seeded id
Uuid(i) == "uuid-" \o CharAt(Digits, i + 1)

UuidPool == {Uuid(i) : i \in 1..MaxUuid}

IdParams == {"1", "2", "3", "999"} \cup UuidPool

Keys == {Undefined, Str(""), Str("secret")}

Body(name, description, price, category, inStock) ==
  [malformed |-> FALSE, name |-> name, description |-> description, price |-> price,
   category |-> category, inStock |-> inStock]

\* no body, or the body {}
EmptyBody == Body(Undefined, Undefined, Undefined, Undefined, Undefined)

\* a body that is not JSON, sent as application/json
MalformedBody == [EmptyBody EXCEPT !.malformed = TRUE]

ValidBodies ==
  {Body(Str(" Desk "), Str("Oak desk "), Num(300), Str(" Office"), Undefined),
   Body(Str(" Desk "), Str("Oak desk "), Num(300), Str(" Office"), Bool(FALSE)),
   Body(Str("Desk"), Str("Oak desk"), Num(300), Str("Office"), Null)}

InvalidBodies ==
  {EmptyBody,
   Body(Str("Desk"), Str("Oak desk"), Undefined, Str("office"), Undefined),
   Body(Str("Desk"), Str("Oak desk"), Num(0), Str("office"), Undefined),
   Body(Str("Desk"), Str("Oak desk"), Num(-5), Str("office"), Undefined),
   Body(Str("Desk"), Str("Oak desk"), Str("300"), Str("office"), Undefined),
   Body(Str("Desk"), Str(""), Num(300), Str("office"), Undefined),
   Body(Str("Desk"), Str("Oak desk"), Num(300), Undefined, Bool(TRUE)),
   Body(Str("  "), Str("Oak desk"), Num(300), Str("office"), Undefined),
   Body(Num(7), Str("Oak desk"), Num(300), Str("office"), Undefined),
   Body(Object, Str("Oak desk"), Num(300), Str("office"), Undefined),
   Body(Str("Desk"), Str("Oak desk"), Object, Str("office"), Undefined)}

\* bodies the validation passes whose description or category is no string
UntrimmableBodies ==
  {Body(Str("Desk"), Num(7), Num(300), Str("office"), Undefined),
   Body(Str("Desk"), Str("Oak desk"), Num(300), Object, Undefined)}

Bodies == ValidBodies \cup InvalidBodies \cup UntrimmableBodies \cup {MalformedBody}

Query(category, inStock, search, page, limit, q) ==
  [category |-> category, inStock |-> inStock, search |-> search, page |-> page,
   limit |-> limit, q |-> q]

NoQuery == Query(Undefined, Undefined, Undefined, Undefined, Undefined, Undefined)

Filters ==
  {[NoQuery EXCEPT !.category = c, !.inStock = s, !.search = n] :
     c \in {Undefined, Str("ELECTRONICS"), Str("kitchen")},
     s \in {Undefined, Str("True"), Str("no")},
     n \in {Undefined, Str("O")}}

\* page and limit as they stand in the query string
Pages ==
  {<<Str("2"), Str("2")>>, <<Str("1"), Str("1x")>>, <<Str("0"), Str("abc")>>,
   <<Str("-1"), Str("2")>>, <<Str("1"), Str("-2")>>, <<Str(" 3"), Str("1")>>,
   <<Str("-2"), Str("-1")>>}

ListQueries ==
  Filters \cup
  {[f EXCEPT !.page = pl[1], !.limit = pl[2]] :
     f \in {NoQuery, [NoQuery EXCEPT !.category = Str("Electronics")]}, pl \in Pages}

SearchQueries == {[NoQuery EXCEPT !.q = q] : q \in {Undefined, Str(""), Str("PHONE"), Str("o")}}

Request(method, path, apiKey, body, query) ==
  [method |-> method, path |-> path, apiKey |-> apiKey, body |-> body, query |-> query]

NoRequest == Request("", "", Undefined, EmptyBody, NoQuery)

Init ==
  /\ products = SeedProducts
  /\ issued = {}
  /\ req = NoRequest
  /\ res = NoResponse

\* Node serves one request at a time, to completion: a request is taken
\* only when none is being served.
Idle == req = NoRequest

\* what a client may send in place of a key and a well-formed body
Senders == (Keys \X {EmptyBody, MalformedBody}) \ {<<Str("secret"), EmptyBody>>}

WithKey(method, path, body, query) == Request(method, path, Str("secret"), body, query)

\* the same request from every sender without a key or with a broken body
Unkeyed(method, path, query) ==
  {Request(method, path, kb[1], kb[2], query) : kb \in Senders}

RootRequests == {WithKey("GET", "/", EmptyBody, NoQuery)} \cup Unkeyed("GET", "/", NoQuery)

ListRequests ==
  {WithKey("GET", Mount, EmptyBody, q) : q \in ListQueries}
  \cup Unkeyed("GET", Mount, [NoQuery EXCEPT !.page = Str("2")])

SearchRequests ==
  {WithKey("GET", Mount \o "/search", EmptyBody, q) : q \in SearchQueries}
  \cup Unkeyed("GET", Mount \o "/search", [NoQuery EXCEPT !.q = Str("o")])

StatsRequests ==
  {WithKey("GET", Mount \o "/stats", EmptyBody, NoQuery)}
  \cup Unkeyed("GET", Mount \o "/stats", NoQuery)

GetRequests ==
  {WithKey("GET", Mount \o "/" \o id, EmptyBody, NoQuery) : id \in IdParams}
  \cup Unkeyed("GET", Mount \o "/1", NoQuery)

\* bodies sent without a key: one of each kind
SampleBodies ==
  {Body(Str(" Desk "), Str("Oak desk "), Num(300), Str(" Office"), Undefined),
   Body(Str("Desk"), Str("Oak desk"), Num(-5), Str("office"), Undefined),
   Body(Str("Desk"), Num(7), Num(300), Str("office"), Undefined),
   MalformedBody}

CreateRequests ==
  {Request("POST", Mount, k, b, NoQuery) : k \in {Str("secret")}, b \in Bodies}
  \cup {Request("POST", Mount, k, b, NoQuery) : k \in {Undefined, Str("")}, b \in SampleBodies}

UpdateRequests ==
  {WithKey("PUT", Mount \o "/" \o id, b, NoQuery) :
     id \in IdParams, b \in ValidBodies \cup UntrimmableBodies}
  \cup {WithKey("PUT", Mount \o "/" \o id, b, NoQuery) :
          id \in {"1", "999"}, b \in InvalidBodies \cup {MalformedBody}}
  \cup {Request("PUT", Mount \o "/" \o id, k, b, NoQuery) :
          id \in {"1", "999"}, k \in {Undefined, Str("")}, b \in SampleBodies}

DeleteRequests ==
  {WithKey("DELETE", Mount \o "/" \o id, EmptyBody, NoQuery) : id \in IdParams}
  \cup Unkeyed("DELETE", Mount \o "/1", NoQuery)

\* requests no route takes
UnmatchedRequests ==
  {WithKey(mp[1], mp[2], EmptyBody, NoQuery) :
     mp \in {<<"GET", "/nope">>, <<"POST", "/">>, <<"PATCH", Mount \o "/1">>,
             <<"GET", Mount \o "/1/reviews">>, <<"DELETE", Mount>>,
             <<"GET", "/api/productsx">>}}
  \cup Unkeyed("GET", "/nope", NoQuery)
  \cup Unkeyed("PATCH", Mount \o "/1", NoQuery)

GetRoot == \E r \in RootRequests : Idle /\ Serve(r, "")

ListProducts == \E r \in ListRequests : Idle /\ Serve(r, "")

SearchProducts == \E r \in SearchRequests : Idle /\ Serve(r, "")

ProductStats == \E r \in StatsRequests : Idle /\ Serve(r, "")

GetProduct == \E r \in GetRequests : Idle /\ Serve(r, "")

\* uuidv4() never returns a value it returned before
CreateProduct == \E r \in CreateRequests, uuid \in UuidPool \ issued : Idle /\ Serve(r, uuid)

UpdateProduct == \E r \in UpdateRequests : Idle /\ Serve(r, "")

DeleteProduct == \E r \in DeleteRequests : Idle /\ Serve(r, "")

UnmatchedRoute == \E r \in UnmatchedRequests : Idle /\ Serve(r, "")

\* the response is on the wire; req and res are dropped
Finish ==
  /\ ~Idle
  /\ req' = NoRequest
  /\ res' = NoResponse
  /\ UNCHANGED <<products, issued>>

Next ==
  \/ GetRoot
  \/ ListProducts
  \/ SearchProducts
  \/ ProductStats
  \/ GetProduct
  \/ CreateProduct
  \/ UpdateProduct
  \/ DeleteProduct
  \/ UnmatchedRoute
  \/ Finish

Spec == Init /\ [][Next]_vars

(***************************************************************************)
(* Properties.                                                             *)
(***************************************************************************)
Ids(store) == {store[i].id : i \in 1..Len(store)}

SeedIds == Ids(SeedProducts)

Served == req # NoRequest

OnProducts == Served /\ UnderMount(req.path)

HasKey == Truthy(req.apiKey)

\* the request reached the route: a parsed body, and a key where one is asked
Reached == Served /\ ~req.body.malformed /\ (UnderMount(req.path) => HasKey)

RouteIs(layer) == Served /\ Route(req.method, req.path) = layer

\* what GET /api/products/:id answers in the current state
GetNow(id) == App(WithKey("GET", Mount \o "/" \o id, EmptyBody, NoQuery), products, issued, "").res

\* C1: every request below /api/products without an x-api-key, or with an
\* empty one, is answered 401, whatever its body, query or id.
C1_NoKeyIs401 == (OnProducts /\ ~HasKey) => res.status = 401

\* C2: in every reachable state no two stored products share an id and
\* every stored price is greater than zero.
C2_UniqueIdsPositivePrices ==
  /\ \A i, j \in 1..Len(products) : products[i].id = products[j].id => i = j
  /\ \A i \in 1..Len(products) : products[i].price > 0

C2_Witness ==
  /\ Len(products) = 4
  /\ \E i \in 1..3 : products[i].name = "Desk"
  /\ RouteIs("put") /\ res.status = 200

\* C3: the id of a created record was in use by no record before, a GET of
\* it returns the record created; after an update a GET returns the updated
\* fields; after a delete a GET returns 404, and an id that was once in use
\* and is gone stays gone.
C3_State ==
  /\ (RouteIs("post") /\ res.status = 201) =>
       /\ GetNow(res.data[1].id).status = 200
       /\ GetNow(res.data[1].id).data = res.data
  /\ (RouteIs("put") /\ res.status = 200) =>
       /\ GetNow(IdParam(req.path)).status = 200
       /\ GetNow(IdParam(req.path)).data[1].name = trim(req.body.name.s)
       /\ GetNow(IdParam(req.path)).data[1].description = trim(req.body.description.s)
       /\ GetNow(IdParam(req.path)).data[1].price = req.body.price.n
       /\ GetNow(IdParam(req.path)).data[1].category = trim(req.body.category.s)
  /\ (RouteIs("delete") /\ res.status = 200) => GetNow(IdParam(req.path)).status = 404

\* (a step that leaves the array as it is leaves every GET as it is)
C3_Step ==
  /\ (RouteIs("post")' /\ res'.status = 201) =>
       res'.data[1].id \notin (Ids(products) \cup SeedIds \cup issued)
  /\ \/ products' = products
     \/ \A id \in IdParams :
          (id \in SeedIds \cup issued /\ GetNow(id).status = 404) => GetNow(id)'.status = 404

C3_RoundTrip == [][C3_State' /\ C3_Step]_vars

C3_Witness ==
  /\ RouteIs("delete") /\ Reached /\ res.status = 200
  /\ IdParam(req.path) \in issued
  /\ GetNow(IdParam(req.path)).status = 404
  /\ \E i \in 1..Len(products) : products[i].id = "1" /\ products[i].name = "Desk"

\* a body the claim calls invalid: one of name, description, price, category
\* missing or falsy, a name that is no string or blank, a price that is no
\* number or not above zero
Rejectable(b) ==
  \/ \E v \in {b.name, b.description, b.price, b.category} :
       v = Undefined \/ v = Null \/ v = Str("") \/ v = Num(0) \/ v = Bool(FALSE)
  \/ b.name.t # "string"
  \/ \A i \in 1..Len(b.name.s) : CharAt(b.name.s, i) = " "
  \/ b.price.t # "number"
  \/ b.price.n <= 0

\* C4: a POST or PUT with a key and an invalid body is answered 400 and
\* leaves the array as it was, for PUT also when the id does not exist.
C4_InvalidBodyIs400 ==
  [][((RouteIs("post")' \/ RouteIs("put")') /\ Reached' /\ Rejectable(req'.body)) =>
       (res'.status = 400 /\ products' = products)]_vars

C4_Witness ==
  /\ RouteIs("put") /\ Reached /\ Rejectable(req.body)
  /\ IdParam(req.path) \notin Ids(products)
  /\ req.body.name = Str("  ")
  /\ res.status = 400

\* the products of the array a list request selects: those every supplied
\* filter selects on its own
Supplied(v) == v.t = "string" /\ v.s # ""

SelectsCategory(q, p) ==
  Supplied(q.category) => toLowerCase(p.category) = toLowerCase(q.category.s)

SelectsStock(q, p) ==
  Supplied(q.inStock) => (p.inStock <=> (toLowerCase(q.inStock.s) = "true"))

SelectsSearch(q, p) ==
  Supplied(q.search) =>
    \E i \in 1..Len(p.name), j \in 0..Len(p.name) :
      toLowerCase(SubSeq(p.name, i, j)) = toLowerCase(q.search.s)

Selected(q, store) ==
  LET all(p) == SelectsCategory(q, p) /\ SelectsStock(q, p) /\ SelectsSearch(q, p)
  IN SelectSeq(store, all)

Range(seq) == {seq[i] : i \in 1..Len(seq)}

\* the elements of seq at the 0-based positions from up to but excluding to
Positions(seq, from, to) ==
  LET idx == {k \in 0..(Len(seq) - 1) : from <= k /\ k < to}
  IN [n \in 1..Cardinality(idx) |->
        seq[1 + CHOOSE k \in idx : Cardinality({m \in idx : m < k}) = n - 1]]

\* the effective page and limit of the claim
EffectivePage ==
  IF parseInt(req.query.page).nan \/ parseInt(req.query.page).n = 0 THEN 1
  ELSE parseInt(req.query.page).n

EffectiveLimit ==
  IF parseInt(req.query.limit).nan \/ parseInt(req.query.limit).n = 0 THEN 10
  ELSE parseInt(req.query.limit).n

\* t is the least integer that is at least n / d
IsCeil(t, n, d) ==
  IF d > 0 THEN t * d >= n /\ (t - 1) * d < n
  ELSE t * d <= n /\ (t - 1) * d > n

Listed == RouteIs("list") /\ Reached

PageFigures(sel) ==
  /\ res.status = 200
  /\ res.count = Len(sel)
  /\ res.pagination.page = EffectivePage
  /\ res.pagination.limit = EffectiveLimit
  /\ IsCeil(res.pagination.totalPages, Len(sel), EffectiveLimit)
  /\ res.pagination.hasNext <=> (EffectivePage * EffectiveLimit < Len(sel))

PageData(sel) ==
  res.data = Positions(sel, (EffectivePage - 1) * EffectiveLimit, EffectivePage * EffectiveLimit)

\* C5 as stated: for every list request count, totalPages and hasNext are
\* as computed from the filtered products and the effective page and limit,
\* and data is the filtered products at the positions (page-1)*limit up to
\* but excluding page*limit.
C5_AsStated ==
  Listed => (PageFigures(Selected(req.query, products)) /\ PageData(Selected(req.query, products)))

\* C5 amended: the figures hold for every list request; data is the products
\* at those positions when page and limit have the same sign.
C5_Pagination ==
  Listed =>
    /\ PageFigures(Selected(req.query, products))
    /\ EffectivePage * EffectiveLimit > 0 => PageData(Selected(req.query, products))

C5_Witness ==
  /\ Listed
  /\ req.query.page = Str("2") /\ req.query.limit = Str("2")
  /\ Len(Selected(req.query, products)) = 4
  /\ Len(res.data) = 2
  /\ res.data[1] = products[3]
  /\ ~res.pagination.hasNext
  /\ res.pagination.totalPages = 2

\* what each filter of a list request selects on its own, as a set
CategoryMatches(q, store) == {p \in Range(store) : SelectsCategory(q, p)}

StockMatches(q, store) == {p \in Range(store) : SelectsStock(q, p)}

SearchMatches(q, store) == {p \in Range(store) : SelectsSearch(q, p)}

\* page and limit left out: the response carries the whole filtered list
WholeList == req.query.page = Undefined /\ req.query.limit = Undefined

\* C6: the filtered set of a list request is the intersection of what each
\* supplied filter selects on its own, whatever the order the filters are
\* applied in; a filter left out selects everything.
C6_FiltersIntersect ==
  Listed =>
    /\ res.count =
         Cardinality(CategoryMatches(req.query, products) \cap StockMatches(req.query, products)
                       \cap SearchMatches(req.query, products))
    /\ WholeList =>
         /\ Range(res.data) =
              CategoryMatches(req.query, products) \cap StockMatches(req.query, products)
                \cap SearchMatches(req.query, products)
         /\ res.data = FilterByCategory(req, FilterByStock(req, FilterBySearch(req, products)))
         /\ res.data = FilterByStock(req, FilterBySearch(req, FilterByCategory(req, products)))
         /\ res.data = FilterBySearch(req, FilterByCategory(req, FilterByStock(req, products)))
    /\ (WholeList /\ req.query.category = Undefined /\ req.query.inStock = Undefined
          /\ req.query.search = Undefined) => res.data = products

C6_Witness ==
  /\ Listed /\ WholeList
  /\ req.query.category = Str("ELECTRONICS")
  /\ req.query.inStock = Str("True")
  /\ req.query.search = Str("O")
  /\ Len(products) = 4
  /\ Len(res.data) = 2
  /\ Cardinality(CategoryMatches(req.query, products)) = 2
  /\ Cardinality(StockMatches(req.query, products)) = 3
  /\ Cardinality(SearchMatches(req.query, products)) = 3

\* C7: a request no route takes is answered 404 with the JSON envelope
\* {success: false, error: <message naming the path>} of the error handler.
C7_UnmatchedIsJson404 ==
  (RouteIs("notFound") /\ Reached) =>
    /\ res.status = 404
    /\ res.type = "json"
    /\ ~res.success
    /\ res.error = "Route " \o req.path \o " not found"

\* the array without the record of that id
Without(store, id) ==
  LET others(p) == p.id # id
  IN SelectSeq(store, others)

\* C8: a DELETE of an id not in the array is answered 404 "Product not
\* found" and changes nothing; a DELETE of an id in the array is answered
\* 200 and removes that record alone, the others keeping contents and order;
\* a second DELETE of the same id is answered 404.
C8_Step ==
  (RouteIs("delete")' /\ Reached') =>
    IF IdParam(req'.path) \in Ids(products)
    THEN /\ res'.status = 200
         /\ products' = Without(products, IdParam(req'.path))
         /\ Len(products') = Len(products) - 1
         /\ App(req', products', issued', "").res.status = 404
    ELSE /\ res'.status = 404
         /\ res'.error = "Product not found"
         /\ products' = products

C8_Delete == [][C8_Step]_vars

C8_Witness ==
  /\ RouteIs("delete") /\ Reached /\ res.status = 200
  /\ IdParam(req.path) = "2"
  /\ Len(products) = 3
  /\ products[3].id \in issued

\* C9: a successful update overwrites name, description, price and category
\* with the trimmed request values, changes inStock only when the body
\* supplies it, and leaves the id, the position, the number of records and
\* every other record as they were; an update of an id not in the array is
\* answered 404 and changes nothing.
C9_Step ==
  (RouteIs("put")' /\ Reached' /\ validateProductMiddleware(req') = NoError) =>
    /\ IdParam(req'.path) \notin Ids(products) => (res'.status = 404 /\ products' = products)
    /\ res'.status = 200 =>
         /\ Len(products') = Len(products)
         /\ \E i \in 1..Len(products) :
              /\ products[i].id = IdParam(req'.path)
              /\ products'[i].id = products[i].id
              /\ products'[i].name = trim(req'.body.name.s)
              /\ products'[i].description = trim(req'.body.description.s)
              /\ products'[i].price = req'.body.price.n
              /\ products'[i].category = trim(req'.body.category.s)
              /\ products'[i].inStock =
                   IF req'.body.inStock = Undefined THEN products[i].inStock
                   ELSE ToBoolean(req'.body.inStock)
              /\ \A j \in 1..Len(products) : j # i => products'[j] = products[j]
         /\ res'.data = <<products'[findIndex(products', IdParam(req'.path)) + 1]>>
    /\ res'.status \notin {200, 404} => products' = products

C9_Update == [][C9_Step]_vars

C9_Witness ==
  /\ RouteIs("put") /\ Reached /\ res.status = 200
  /\ IdParam(req.path) = "3"
  /\ req.body.inStock = Undefined
  /\ Len(products) = 3
  /\ products[3].id \in issued
  /\ products[2].name = "Desk" /\ products[2].inStock = FALSE /\ products[2].id = "3"
  /\ products[1].name = "Laptop"

\* C10: every POST with a key that passes the validation is answered 201
\* with the record created, which is appended to the array with inStock true
\* when the body leaves it out; none ends in a 500.
C10_Step ==
  (RouteIs("post")' /\ Reached' /\ validateProductMiddleware(req') = NoError) =>
    /\ res'.status = 201
    /\ Len(products') = Len(products) + 1
    /\ SubSeq(products', 1, Len(products)) = products
    /\ res'.data = <<products'[Len(products')]>>
    /\ req'.body.inStock = Undefined => products'[Len(products')].inStock

C10_ValidCreateIs201 == [][C10_Step]_vars
====
